---- MODULE Spec2Model ----
(***************************************************************************)
(* A model of Release/include/containerstream.h: basic_container_buffer,   *)
(* the container-backed stream buffer, and the container_buffer handle.    *)
(*                                                                         *)
(* Offsets are those of the code (0-based); m_data is a TLA+ sequence, so  *)
(* the element at offset p is m_data[p + 1].                               *)
(*                                                                         *)
(* The base class streambuf_state_manager (astreambuf.h) is not among the  *)
(* source files: its per-direction open flags, can_read, can_write,        *)
(* is_open and close are modelled from the specification's data model.     *)
(*                                                                         *)
(* in_avail is modelled as its portable branch (the #else of _MS_WINDOWS). *)
(* A copy that runs outside m_data is undefined behaviour: the model       *)
(* takes every outcome, elements outside the container are lost (written)  *)
(* or arbitrary (read), or the program stops.                              *)
(***************************************************************************)
EXTENDS Integers, Sequences, FiniteSets, TLC

\* ---------------------------------------------------------------- bounds
\* Largest offset the model follows (cursor, committed size, storage length).
MaxLen == 2
\* Elements are 0..MaxChar.
MaxChar == 1
\* Longest collection a buffer is constructed from.
MaxInitLen == 2
\* Width in bits of the model's size_t (any width above the offsets will do).
SizeBits == 8
\* container_buffer handles that can exist at once.
MaxHandles == 2

\* ------------------------------------------------------- program constants
\* _CharType(): the value std::resize fills new elements with.
DefaultChar == 0
\* traits::eof()
EofValue == -1

Char == 0..MaxChar
Counts == 0..MaxLen
OpenModes == SUBSET {"in", "out"}
SeekDirs == {"beg", "cur", "end"}
Handles == 1..MaxHandles

SeqsUpTo(n) == UNION {[1..k -> Char] : k \in 0..n}

Min(a, b) == IF a <= b THEN a ELSE b
Max(a, b) == IF a >= b THEN a ELSE b

SizeMod == 2 ^ SizeBits

VARIABLES
    constructed,          \* "none" | "ok" | "invalid_argument" | "crashed" |
                          \* "destructing" | "destroyed"
    m_data,               \* the container
    m_current_position,   \* read/write head
    m_size,               \* extent of valid data
    stream_can_read,      \* the state manager's read direction is open
    stream_can_write,     \* the state manager's write direction is open
    alloc_view,           \* length of the region at the head that the caller
                          \* holds from alloc (0: none)
    last,                 \* the last operation: its name and its results
    written,              \* history: whether the buffer was constructed empty
                          \* for writing and only written since, and the data
                          \* handed to those writes, in order
    handle_core           \* per container_buffer handle, the core its
                          \* shared pointer refers to (0: none, 1: the buffer)

vars == <<constructed, m_data, m_current_position, m_size,
          stream_can_read, stream_can_write, alloc_view, last,
          written, handle_core>>

bufvars == <<m_data, m_current_position, m_size>>

\* The record of an operation that has not run: its name, the value it
\* returned, and whether a copy of it ran outside the container.
NoOp == [op |-> "none", ret |-> 0, ub |-> FALSE]

\* The history of a buffer that is not in a run of writes from empty.
NoWrites == [ok |-> FALSE, data |-> <<>>]

\* ------------------------------------------------- streambuf_state_manager
can_read == stream_can_read

can_write == stream_can_write

is_open == can_read \/ can_write

\* ---------------------------------------------------------------- helpers
\* std::basic_string / std::vector resize(n): keeps the first n elements and
\* value-initialises the new ones.
Resize(data, n) ==
    [i \in 1..n |-> IF i <= Len(data) THEN data[i] ELSE DefaultChar]

\* std::copy(src, src + Len(src), begin(data) + at): the elements that fall
\* inside the container; those past its end are not part of it.
CopyInto(data, at, src) ==
    [i \in 1..Len(data) |->
        IF at < i /\ i <= at + Len(src) THEN src[i - at] ELSE data[i]]

\* The results std::copy(begin(data) + from, begin(data) + to, dest) can give:
\* an element inside the container is copied, one outside it is arbitrary.
CopyOut(data, from, to) ==
    {d \in [1..(to - from) -> Char] :
        \A k \in 1..(to - from) : (from + k <= Len(data)) => d[k] = data[from + k]}

\* The buffer's own fields, as one value the operations take and give back.
Buf == [d |-> m_data, p |-> m_current_position, s |-> m_size]

\* in_avail(): m_size - m_current_position in size_t arithmetic.
in_avail(b) == (b.s - b.p) % SizeMod

can_satisfy(b) == in_avail(b) > 0

\* The container after a call that never resizes it.
resize_for_write_never(data, size, newPos) == data

\* resize_for_write(newPos): the container after the call.
resize_for_write(data, size, newPos) ==
    IF newPos > size THEN Resize(data, newPos) ELSE data

\* m_size after a call that never raises it.
update_size_never(size, newPos, writable) == size

\* update_current_position(newPos): m_size after the call.
update_size(size, newPos, writable) ==
    IF writable /\ size < newPos THEN newPos ELSE size

\* ----------------------------------------------------------- construction
validate_mode(mode) == ~("in" \in mode /\ "out" \in mode)

Init ==
    /\ constructed = "none"
    /\ m_data = <<>>
    /\ m_current_position = 0
    /\ m_size = 0
    /\ stream_can_read = FALSE
    /\ stream_can_write = FALSE
    /\ alloc_view = 0
    /\ last = NoOp
    /\ written = NoWrites
    /\ handle_core = [h \in Handles |-> 0]

\* The head of a buffer constructed from data, left at offset 0 whatever the
\* mode.
initial_position_zero(data, mode) == 0

\* m_current_position((mode & std::ios_base::in) ? 0 : m_data.size())
initial_position(data, mode) == IF "in" \in mode THEN 0 ELSE Len(data)

\* container_buffer(data, mode) -> basic_container_buffer(data, mode); the
\* handle constructed is handle 1, and owns the new core.
ConstructFromCollection(data, mode) ==
    /\ constructed = "none"
    /\ IF validate_mode(mode)
       THEN /\ constructed' = "ok"
            /\ m_data' = data
            /\ m_current_position' = initial_position(data, mode)
            /\ m_size' = Len(data)
            /\ stream_can_read' = ("in" \in mode)
            /\ stream_can_write' = ("out" \in mode)
            /\ handle_core' = [handle_core EXCEPT ![1] = 1]
       ELSE /\ constructed' = "invalid_argument"
            /\ UNCHANGED <<m_data, m_current_position, m_size,
                           stream_can_read, stream_can_write, handle_core>>
    /\ alloc_view' = 0
    /\ last' = [NoOp EXCEPT !.op = "construct"]
    /\ written' = NoWrites

\* container_buffer(mode) -> basic_container_buffer(mode)
ConstructEmpty(mode) ==
    /\ constructed = "none"
    /\ constructed' = "ok"
    /\ m_data' = <<>>
    /\ m_current_position' = 0
    /\ m_size' = 0
    /\ stream_can_read' = ("in" \in mode)
    /\ stream_can_write' = ("out" \in mode)
    /\ alloc_view' = 0
    /\ last' = [NoOp EXCEPT !.op = "construct_empty"]
    /\ written' = [ok |-> mode = {"out"}, data |-> <<>>]
    /\ handle_core' = [handle_core EXCEPT ![1] = 1]

\* A close that flips the directions named: a closed one opens again.
Close_reopen(mode) ==
    /\ constructed = "ok"
    /\ mode # {}
    /\ stream_can_read' = (IF "in" \in mode THEN ~stream_can_read ELSE stream_can_read)
    /\ stream_can_write' = (IF "out" \in mode THEN ~stream_can_write ELSE stream_can_write)
    /\ alloc_view' = 0
    /\ last' = [NoOp EXCEPT !.op = "close"]
    /\ written' = NoWrites
    /\ UNCHANGED <<constructed, m_data, m_current_position, m_size, handle_core>>

\* close(mode): closes the directions named, each at most once.
Close(mode) ==
    /\ constructed = "ok"
    /\ mode # {}
    /\ stream_can_read' = (stream_can_read /\ "in" \notin mode)
    /\ stream_can_write' = (stream_can_write /\ "out" \notin mode)
    /\ alloc_view' = 0
    /\ last' = [NoOp EXCEPT !.op = "close"]
    /\ written' = NoWrites
    /\ UNCHANGED <<constructed, m_data, m_current_position, m_size, handle_core>>

\* ------------------------------------------------------------- operations
\* What one call leaves behind: the container, the head, the size, the value
\* returned, the elements copied out, whether a copy ran outside the
\* container, and whether the program stopped there.
Out(d, p, s, r, dest, ub) ==
    [d |-> d, p |-> p, s |-> s, ret |-> r, dest |-> dest, ub |-> ub, crash |-> FALSE]

Unchanged(b, r) == Out(b.d, b.p, b.s, r, <<>>, FALSE)

\* The outcomes of a call whose copy may run outside the container.
WithCrash(b, outs, ub) ==
    IF ub THEN outs \cup {[Unchanged(b, 0) EXCEPT !.ub = TRUE, !.crash = TRUE]}
    ELSE outs

\* write(ptr, count)
write(b, data) ==
    LET count == Len(data)
    IN  IF ~can_write \/ count = 0
        THEN {Unchanged(b, 0)}
        ELSE LET newSize == b.p + count
                 d1 == resize_for_write(b.d, b.s, newSize)
                 d2 == CopyInto(d1, b.p, data)
                 ub == newSize > Len(d1)
             IN  WithCrash(b, {Out(d2, newSize, update_size(b.s, newSize, can_write),
                                   count, <<>>, ub)}, ub)

\* read(ptr, count, advance)
read(b, count, advance) ==
    IF ~can_satisfy(b)
    THEN {Unchanged(b, 0)}
    ELSE LET read_size == Min(count, in_avail(b))
             newPos == b.p + read_size
             ub == read_size > 0 /\ newPos > Len(b.d)
         IN  WithCrash(b,
               {Out(b.d,
                    IF advance THEN newPos ELSE b.p,
                    IF advance THEN update_size(b.s, newPos, can_write) ELSE b.s,
                    read_size, dest, ub) :
                  dest \in CopyOut(b.d, b.p, newPos)}, ub)

\* read_byte(advance): the element read, or eof.
read_byte(b, advance) ==
    {[o EXCEPT !.ret = IF o.ret = 1 THEN o.dest[1] ELSE EofValue] :
        o \in read(b, 1, advance)}

\* seekpos with the read head stopped one short of the end (position < m_size).
seekpos_short(b, position, mode) ==
    IF position >= 0
    THEN IF "in" \in mode /\ can_read /\ position < b.s
         THEN Out(b.d, position, update_size(b.s, position, can_write),
                  position, <<>>, FALSE)
         ELSE IF "out" \in mode /\ can_write
              THEN Out(resize_for_write(b.d, b.s, position), position,
                       update_size(b.s, position, can_write), position, <<>>, FALSE)
              ELSE Unchanged(b, EofValue)
    ELSE Unchanged(b, EofValue)

\* seekpos(position, mode)
seekpos(b, position, mode) ==
    IF position >= 0
    THEN IF "in" \in mode /\ can_read /\ position <= b.s
         THEN Out(b.d, position, update_size(b.s, position, can_write),
                  position, <<>>, FALSE)
         ELSE IF "out" \in mode /\ can_write
              THEN Out(resize_for_write(b.d, b.s, position), position,
                       update_size(b.s, position, can_write), position, <<>>, FALSE)
              ELSE Unchanged(b, EofValue)
    ELSE Unchanged(b, EofValue)

\* seekoff(offset, way, mode): the position handed to seekpos.
seek_target(b, offset, way) ==
    CASE way = "beg" -> 0 + offset
      [] way = "cur" -> b.p + offset
      [] way = "end" -> b.s + offset

seekoff(b, offset, way, mode) == seekpos(b, seek_target(b, offset, way), mode)

\* alloc(count): ret is the offset of the region handed back, EofValue for a
\* null pointer.
alloc(b, count) ==
    IF ~can_write
    THEN Unchanged(b, EofValue)
    ELSE Out(resize_for_write(b.d, b.s, b.p + count), b.p, b.s, b.p, <<>>, FALSE)

\* commit(actual)
commit(b, actual) ==
    Out(b.d, b.p + actual, update_size(b.s, b.p + actual, can_write), 0, <<>>, FALSE)

\* release(ptr, count)
release(b, count) ==
    Out(b.d, b.p + count, update_size(b.s, b.p + count, can_write), 0, <<>>, FALSE)

\* acquire that reports the end of the stream once the write direction is
\* not open, whatever the read direction.
acquire_unwritable(b) ==
    IF ~can_read
    THEN [ret |-> 0, ptr |-> EofValue, count |-> 0]
    ELSE IF in_avail(b) > 0
         THEN [ret |-> 1, ptr |-> b.p, count |-> in_avail(b)]
         ELSE [ret |-> IF can_write THEN 0 ELSE 1, ptr |-> EofValue, count |-> 0]

\* acquire(ptr, count): ret is 1 for true and 0 for false, ptr the offset the
\* view starts at (EofValue for a null pointer), count the count handed back
\* (0 where the code leaves it unset).
acquire(b) ==
    IF ~can_read
    THEN [ret |-> 0, ptr |-> EofValue, count |-> 0]
    ELSE IF in_avail(b) > 0
         THEN [ret |-> 1, ptr |-> b.p, count |-> in_avail(b)]
         ELSE [ret |-> IF is_open THEN 0 ELSE 1, ptr |-> EofValue, count |-> 0]

\* getc() of the state manager: _getc() when the buffer can be read.
getc(b) == IF ~can_read THEN {Unchanged(b, EofValue)} ELSE read_byte(b, FALSE)

\* _ungetc()
ungetc(b) ==
    LET pos == seekoff(b, -1, "cur", {"in"})
    IN  IF pos.ret = EofValue THEN {pos} ELSE getc(pos)

\* _nextc()
nextc(b) ==
    UNION {IF o.crash THEN {o} ELSE read_byte(o, FALSE) : o \in read_byte(b, TRUE)}

\* ----------------------------------------------------------------- actions
\* The state after a call with outcome o, recorded as rec. The caller gives up
\* the region alloc handed it at the first call that changes the buffer.
Step(o, rec) ==
    /\ o.p <= MaxLen
    /\ Len(o.d) <= MaxLen
    /\ last' = [rec EXCEPT !.ret = o.ret, !.ub = o.ub]
    /\ UNCHANGED <<stream_can_read, stream_can_write, handle_core>>
    /\ IF o.crash
       THEN /\ constructed' = "crashed"
            /\ UNCHANGED <<m_data, m_current_position, m_size, alloc_view>>
       ELSE /\ constructed' = constructed
            /\ m_data' = o.d
            /\ m_current_position' = o.p
            /\ m_size' = o.s
            /\ alloc_view' =
                 (IF <<o.d, o.p, o.s>> = bufvars THEN alloc_view ELSE 0)

\* A call other than a write: it ends a run of writes.
Apply(o, rec) == Step(o, rec) /\ written' = NoWrites

\* A write of data with outcome o: the run of writes goes on with data.
Wrote(o, data) ==
    written' = IF written.ok /\ ~o.crash
               THEN [written EXCEPT !.data = @ \o data]
               ELSE NoWrites

Write(data) ==
    /\ constructed = "ok"
    /\ \E o \in write(Buf, data) :
          Step(o, [NoOp EXCEPT !.op = "write"]) /\ Wrote(o, data)

\* _putc(ch)
Putc(ch) ==
    /\ constructed = "ok"
    /\ \E o \in write(Buf, <<ch>>) :
          /\ Step([o EXCEPT !.ret = IF o.ret = 1 THEN ch ELSE EofValue],
                  [NoOp EXCEPT !.op = "putc"])
          /\ Wrote(o, <<ch>>)

\* _getn / _sgetn (advance) and _scopy (no advance)
Read(count, advance) ==
    /\ constructed = "ok"
    /\ \E o \in read(Buf, count, advance) :
          Apply(o, [NoOp EXCEPT !.op = IF advance THEN "read" ELSE "copy"])

\* _bumpc / _sbumpc (advance) and _getc / _sgetc (no advance)
ReadByte(advance) ==
    /\ constructed = "ok"
    /\ \E o \in read_byte(Buf, advance) :
          Apply(o, [NoOp EXCEPT !.op = IF advance THEN "bumpc" ELSE "getc"])

Nextc ==
    /\ constructed = "ok"
    /\ \E o \in nextc(Buf) : Apply(o, [NoOp EXCEPT !.op = "nextc"])

Ungetc ==
    /\ constructed = "ok"
    /\ \E o \in ungetc(Buf) : Apply(o, [NoOp EXCEPT !.op = "ungetc"])

Seekpos(position, mode) ==
    /\ constructed = "ok"
    /\ Apply(seekpos(Buf, position, mode),
             [NoOp EXCEPT !.op = "seek"])

Seekoff(offset, way, mode) ==
    /\ constructed = "ok"
    /\ Apply(seekoff(Buf, offset, way, mode),
             [NoOp EXCEPT !.op = "seek"])

\* alloc(count), and the region the caller now holds.
Alloc(count) ==
    /\ constructed = "ok"
    /\ LET o == alloc(Buf, count)
       IN  /\ Len(o.d) <= MaxLen
           /\ m_data' = o.d
           /\ alloc_view' = (IF o.ret = EofValue THEN 0 ELSE count)
           /\ last' = [NoOp EXCEPT !.op = "alloc", !.ret = o.ret]
    /\ written' = NoWrites
    /\ UNCHANGED <<constructed, m_current_position, m_size,
                   stream_can_read, stream_can_write, handle_core>>

\* The caller stores ch at offset i of the region alloc handed back.
Fill(i, ch) ==
    /\ constructed = "ok"
    /\ i < alloc_view
    /\ LET at == m_current_position + i
           ub == at >= Len(m_data)
       IN  \E crash \in (IF ub THEN BOOLEAN ELSE {FALSE}) :
              /\ constructed' = (IF crash THEN "crashed" ELSE "ok")
              /\ m_data' = (IF ub THEN m_data ELSE [m_data EXCEPT ![at + 1] = ch])
              /\ last' = [NoOp EXCEPT !.op = "fill", !.ub = ub]
    /\ written' = NoWrites
    /\ UNCHANGED <<m_current_position, m_size, stream_can_read, stream_can_write,
                   alloc_view, handle_core>>

Commit(actual) ==
    /\ constructed = "ok"
    /\ Apply(commit(Buf, actual), [NoOp EXCEPT !.op = "commit"])

Release(count) ==
    /\ constructed = "ok"
    /\ Apply(release(Buf, count), [NoOp EXCEPT !.op = "release"])

Acquire ==
    /\ constructed = "ok"
    /\ LET a == acquire(Buf)
       IN  last' = [NoOp EXCEPT !.op = "acquire", !.ret = a.ret]
    /\ written' = NoWrites
    /\ UNCHANGED <<constructed, m_data, m_current_position, m_size,
                   stream_can_read, stream_can_write, alloc_view, handle_core>>

Next ==
    \/ \E data \in SeqsUpTo(MaxInitLen), mode \in OpenModes :
          ConstructFromCollection(data, mode)
    \/ \E mode \in OpenModes : ConstructEmpty(mode)
    \/ \E mode \in OpenModes : Close(mode)
    \/ \E data \in SeqsUpTo(MaxLen) : Write(data)
    \/ \E ch \in Char : Putc(ch)
    \/ \E count \in Counts, advance \in BOOLEAN : Read(count, advance)
    \/ \E advance \in BOOLEAN : ReadByte(advance)
    \/ Nextc
    \/ Ungetc
    \/ \E position \in -1..MaxLen, mode \in OpenModes : Seekpos(position, mode)
    \/ \E offset \in -MaxLen..MaxLen, way \in SeekDirs, mode \in OpenModes :
          Seekoff(offset, way, mode)
    \/ \E count \in Counts : Alloc(count)
    \/ \E i \in 0..(MaxLen - 1), ch \in Char : Fill(i, ch)
    \/ \E actual \in Counts : Commit(actual)
    \/ \E count \in Counts : Release(count)
    \/ Acquire

Spec == Init /\ [][Next]_vars

\* ------------------------------------------------ container_buffer handles
\* Handle h refers to a core.
holds(h) == handle_core[h] # 0

\* The handles that share the buffer's core (the shared pointer's use count).
use_count == Cardinality({h \in Handles : handle_core[h] = 1})

\* A copy that gets a core of its own.
copy_handle_fresh(src) == handle_core[src] + 1

\* container_buffer(const container_buffer&): the copy shares the core of src.
copy_handle(src) == handle_core[src]

CopyHandle(src, dst) ==
    /\ constructed = "ok"
    /\ holds(src)
    /\ ~holds(dst)
    /\ handle_core' = [handle_core EXCEPT ![dst] = copy_handle(src)]
    /\ UNCHANGED <<constructed, m_data, m_current_position, m_size,
                   stream_can_read, stream_can_write, alloc_view, last, written>>

\* A destructor that closes the read direction only.
destructor_keeps_write == [can_read |-> FALSE, can_write |-> stream_can_write]

\* ~basic_container_buffer(): _close_read(); _close_write(); the open flags
\* it leaves.
destructor == [can_read |-> FALSE, can_write |-> FALSE]

\* A handle goes away; the last one to go runs the core's destructor.
DropHandle(h) ==
    /\ constructed = "ok"
    /\ holds(h)
    /\ handle_core' = [handle_core EXCEPT ![h] = 0]
    /\ IF handle_core[h] = 1 /\ use_count = 1
       THEN /\ constructed' = "destructing"
            /\ stream_can_read' = destructor.can_read
            /\ stream_can_write' = destructor.can_write
            /\ alloc_view' = 0
            /\ last' = [NoOp EXCEPT !.op = "destructor"]
            /\ written' = NoWrites
            /\ UNCHANGED <<m_data, m_current_position, m_size>>
       ELSE UNCHANGED <<constructed, m_data, m_current_position, m_size,
                        stream_can_read, stream_can_write, alloc_view, last, written>>

\* The destructor's body is done: the members, m_data among them, go.
ReleaseStorage ==
    /\ constructed = "destructing"
    /\ constructed' = "destroyed"
    /\ m_data' = <<>>
    /\ last' = [NoOp EXCEPT !.op = "release_storage"]
    /\ UNCHANGED <<m_current_position, m_size, stream_can_read, stream_can_write,
                   alloc_view, written, handle_core>>

\* Handle h reaches the buffer's core (get_base()).
Through(h) == handle_core[h] = 1

\* The buffer used through copies of its handle, from construction to the
\* end of its core.
HandleNext ==
    \/ \E data \in SeqsUpTo(MaxInitLen), mode \in OpenModes :
          ConstructFromCollection(data, mode)
    \/ \E mode \in OpenModes : ConstructEmpty(mode)
    \/ \E src \in Handles, dst \in Handles : CopyHandle(src, dst)
    \/ \E h \in Handles : DropHandle(h)
    \/ ReleaseStorage
    \/ \E h \in Handles, mode \in OpenModes : Through(h) /\ Close(mode)
    \/ \E h \in Handles, data \in SeqsUpTo(MaxLen) : Through(h) /\ Write(data)
    \/ \E h \in Handles, count \in Counts : Through(h) /\ Read(count, TRUE)
    \/ \E h \in Handles, position \in 0..MaxLen, mode \in OpenModes :
          Through(h) /\ Seekpos(position, mode)

HandleSpec == Init /\ [][HandleNext]_vars

\* ------------------------------------------------------------------ claims
Alive == constructed = "ok"

\* C1: in every reachable state of a constructed buffer the head is within
\* the committed size, m_current_position <= m_size (the assertion of
\* in_avail and update_current_position).
C1_CursorWithinCommitted == Alive => m_current_position <= m_size

\* C2: in every reachable state of a constructed buffer the committed size is
\* within the container, m_size <= m_data.size() (the assertion of
\* resize_for_write and update_current_position).
C2_CommittedWithinStorage == Alive => m_size <= Len(m_data)

\* C3: no operation makes the container shorter.
C3_StorageNeverShrinks ==
    [][Alive => Len(m_data') >= Len(m_data)]_vars

\* C4: a construction that asks for both in and out fails with
\* invalid_argument on both paths, and no constructed buffer has both
\* directions open.
C4_BothFlagsRejected ==
    [][/\ \A mode \in OpenModes :
            ( /\ {"in", "out"} \subseteq mode
              /\ \/ ConstructEmpty(mode)
                 \/ \E data \in SeqsUpTo(MaxInitLen) : ConstructFromCollection(data, mode) )
            => constructed' = "invalid_argument"
       /\ constructed' = "ok" => ~(stream_can_read' /\ stream_can_write')]_vars

\* C5: write on a writable buffer with count > 0 returns count, stores the data
\* at the old head, moves the head by count and leaves m_size the larger of
\* its old value and the new head; otherwise it returns 0 and changes nothing.
C5_WriteEffect ==
    Alive =>
      \A data \in SeqsUpTo(MaxLen) : \A o \in write(Buf, data) :
        IF can_write /\ Len(data) > 0
        THEN /\ ~o.crash
             /\ o.ret = Len(data)
             /\ \A k \in 1..Len(data) :
                   /\ m_current_position + k <= Len(o.d)
                   /\ o.d[m_current_position + k] = data[k]
             /\ o.p = m_current_position + Len(data)
             /\ o.s = Max(m_size, o.p)
        ELSE /\ o.ret = 0
             /\ <<o.d, o.p, o.s>> = bufvars

\* C6: read on a readable buffer with the head below m_size returns
\* n = min(count, m_size - head) and the n elements at the head; the head moves
\* by n with advance and stays without; the container and m_size stay.
C6_ReadEffect ==
    (Alive /\ can_read /\ m_current_position < m_size) =>
      \A count \in Counts, advance \in BOOLEAN : \A o \in read(Buf, count, advance) :
        LET n == Min(count, m_size - m_current_position)
        IN  /\ ~o.crash
            /\ o.ret = n
            /\ Len(o.dest) = n
            /\ \A k \in 1..n :
                  /\ m_current_position + k <= Len(m_data)
                  /\ o.dest[k] = m_data[m_current_position + k]
            /\ o.p = (IF advance THEN m_current_position + n ELSE m_current_position)
            /\ o.d = m_data
            /\ o.s = m_size

\* C7: read on a buffer that is not open for reading returns 0 and leaves the
\* head where it is, also when the head is below m_size (a write-mode buffer
\* after a seek back, a read-mode buffer closed before its end).
C7_ReadNeedsOpen ==
    (Alive /\ ~can_read /\ m_current_position < m_size) =>
      \A count \in Counts, advance \in BOOLEAN : \A o \in read(Buf, count, advance) :
        o.ret = 0 /\ o.p = m_current_position

\* What C8 says of one seek of the read head to target, with outcome o.
ReadSeekOk(target, o) ==
    IF 0 <= target /\ target <= m_size
    THEN o.p = target /\ o.ret = target
    ELSE o.ret = EofValue /\ <<o.d, o.p, o.s>> = bufvars

\* C8: on a buffer open for reading only, a seek of the read head (absolute,
\* from the head, from the end) succeeds exactly when 0 <= target <= m_size,
\* moving the head to target and returning it; otherwise it returns eof and
\* changes nothing.
C8_ReadSeek ==
    (Alive /\ can_read /\ ~can_write) =>
      \A mode \in {m \in OpenModes : "in" \in m} :
        /\ \A position \in -1..(MaxLen + 1) :
              ReadSeekOk(position, seekpos(Buf, position, mode))
        /\ \A offset \in -(MaxLen + 1)..(MaxLen + 1), way \in SeekDirs :
              ReadSeekOk(seek_target(Buf, offset, way), seekoff(Buf, offset, way, mode))

C8_Witness ==
    /\ Alive /\ can_read /\ ~can_write
    /\ last.op = "seek" /\ last.ret = 1
    /\ m_current_position = 1 /\ m_size = 2

\* What C9 says of one seek of the write head to target, with outcome o.
WriteSeekOk(target, o) ==
    IF 0 <= target
    THEN /\ o.ret = target
         /\ o.p = target
         /\ o.s = Max(m_size, target)
         /\ Len(o.d) >= target
    ELSE o.ret = EofValue /\ <<o.d, o.p, o.s>> = bufvars

\* C9: on a writable buffer a seek of the write head to a target >= 0 returns
\* target, moves the head there, leaves m_size the larger of its old value and
\* target and the container at least target long; a negative target returns
\* eof and changes nothing.
C9_WriteSeek ==
    (Alive /\ can_write) =>
      /\ \A position \in -1..(MaxLen + 1) :
            WriteSeekOk(position, seekpos(Buf, position, {"out"}))
      /\ \A offset \in -(MaxLen + 1)..(MaxLen + 1), way \in SeekDirs :
            WriteSeekOk(seek_target(Buf, offset, way), seekoff(Buf, offset, way, {"out"}))

\* C10: on a writable buffer, after a seek of the write head to p > m_size and
\* a write there, every element at the offsets m_size .. p - 1 is the default
\* element.
C10_GapIsDefault ==
    (Alive /\ can_write) =>
      \A p \in (m_size + 1)..(MaxLen + 1), data \in SeqsUpTo(1) \ {<<>>} :
        \A o \in write(seekpos(Buf, p, {"out"}), data) :
          \A i \in (m_size + 1)..p : i <= Len(o.d) /\ o.d[i] = DefaultChar

\* The buffer a caller is left with after alloc(Len(data)), a copy of data
\* into the region handed back (none when alloc gave a null pointer) and
\* commit(Len(data)).
alloc_fill_commit(b, data) ==
    LET a == alloc(b, Len(data))
        ub == a.ret # EofValue /\ Len(data) > 0 /\ b.p + Len(data) > Len(a.d)
        filled == IF a.ret = EofValue THEN a
                  ELSE [a EXCEPT !.d = CopyInto(a.d, b.p, data), !.ub = ub]
    IN  WithCrash(b, {[commit(filled, Len(data)) EXCEPT !.ub = ub]}, ub)

\* What a caller can observe of an outcome: the container, head and size, or
\* that the program stopped.
Observed(o) == IF o.crash THEN <<"stopped">> ELSE <<"buffer", o.d, o.p, o.s>>

\* C11: from every reachable state, alloc(n), a fill of the region and
\* commit(n) leave the same head, size and container as write(data, n), for
\* every n >= 0, on writable and on closed buffers.
C11_AllocCommitIsWrite ==
    Alive =>
      \A data \in SeqsUpTo(MaxLen) :
        {Observed(o) : o \in alloc_fill_commit(Buf, data)}
          = {Observed(o) : o \in write(Buf, data)}

\* What a caller collects by calling read(ptr, count) until it returns 0:
\* the elements in order, or that the program stopped on the way.
RECURSIVE read_until_empty(_, _)
read_until_empty(b, count) ==
    UNION {IF o.crash THEN {[stopped |-> TRUE, data |-> <<>>]}
           ELSE IF o.ret = 0 THEN {[stopped |-> FALSE, data |-> <<>>]}
           ELSE {[r EXCEPT !.data = o.dest \o @] : r \in read_until_empty(o, count)} :
             o \in read(b, count, TRUE)}

\* C12: after any run of writes into a buffer constructed empty for writing
\* (nothing else called), m_size is the total length written and the
\* container is the data written, in order; and every collection of that
\* length, put in a buffer constructed for reading, is given back element
\* for element by reads from offset 0 until read returns 0, whatever the
\* count asked of each read.
C12_WritesThenReads ==
    Alive =>
      /\ written.ok =>
            /\ m_size = Len(written.data)
            /\ m_data = written.data
      /\ (last.op = "construct" /\ can_read /\ ~can_write) =>
            \A count \in 1..MaxLen :
              read_until_empty(Buf, count) = {[stopped |-> FALSE, data |-> m_data]}

C12_Witness ==
    /\ Alive /\ written.ok
    /\ Len(written.data) = 2
    /\ last.op = "write" /\ last.ret = 1

\* C13: acquire on a readable buffer with the head below m_size returns true
\* with a view at the head of m_size - head elements; with nothing to read it
\* returns true only when no direction is open, and false while one is.
C13_Acquire ==
    Alive =>
      LET a == acquire(Buf)
      IN  IF can_read /\ m_current_position < m_size
          THEN /\ a.ret = 1
               /\ a.ptr = m_current_position
               /\ a.count = m_size - m_current_position
          ELSE /\ a.ret = 1 => ~is_open
               /\ is_open => a.ret = 0

\* C14: unget on a readable buffer with the head above 0 moves the head back
\* by one and returns the element there; with the head at 0, or on a buffer
\* not open for reading, it returns eof and leaves the head.
C14_Unget ==
    Alive =>
      \A o \in ungetc(Buf) :
        IF can_read /\ m_current_position > 0
        THEN /\ ~o.crash
             /\ o.p = m_current_position - 1
             /\ m_current_position <= Len(m_data)
             /\ o.ret = m_data[m_current_position]
             /\ o.d = m_data
             /\ o.s = m_size
        ELSE /\ o.ret = EofValue
             /\ <<o.d, o.p, o.s>> = bufvars

\* An outcome that reports r and leaves the buffer as it is.
Inert(o, r) == ~o.crash /\ o.ret = r /\ <<o.d, o.p, o.s>> = bufvars

\* Every call of the write direction reports nothing done and changes nothing.
WriteDirectionInert ==
    /\ \A data \in SeqsUpTo(MaxLen) : \A o \in write(Buf, data) : Inert(o, 0)
    /\ \A count \in Counts : Inert(alloc(Buf, count), EofValue)
    /\ \A actual \in Counts : Inert(commit(Buf, actual), 0)
    /\ \A position \in 0..MaxLen : Inert(seekpos(Buf, position, {"out"}), EofValue)
    /\ \A offset \in -MaxLen..MaxLen, way \in SeekDirs :
          Inert(seekoff(Buf, offset, way, {"out"}), EofValue)

\* Every call of the read direction reports nothing done and changes nothing.
ReadDirectionInert ==
    /\ \A count \in Counts, advance \in BOOLEAN :
          \A o \in read(Buf, count, advance) : Inert(o, 0)
    /\ \A advance \in BOOLEAN : \A o \in read_byte(Buf, advance) : Inert(o, EofValue)
    /\ \A count \in Counts : Inert(release(Buf, count), 0)
    /\ \A position \in 0..MaxLen : Inert(seekpos(Buf, position, {"in"}), EofValue)
    /\ \A offset \in -MaxLen..MaxLen, way \in SeekDirs :
          Inert(seekoff(Buf, offset, way, {"in"}), EofValue)

\* C15: right after a step that closes a direction, every operation of that
\* direction (write, putc, alloc, commit, seek; read, release, seek) reports
\* 0, null or eof and leaves the head, m_size and the container unchanged.
C15_ClosedDirectionInert ==
    [][Alive =>
         /\ (stream_can_write /\ ~stream_can_write') => WriteDirectionInert'
         /\ (stream_can_read /\ ~stream_can_read') => ReadDirectionInert']_vars

\* C16: once a direction of a constructed buffer is closed no step opens it
\* again, and a close that names only closed directions changes neither the
\* flags nor the buffer.
C16_ClosedIsTerminal ==
    [][Alive =>
         /\ ~stream_can_read => ~stream_can_read'
         /\ ~stream_can_write => ~stream_can_write'
         /\ \A mode \in OpenModes :
               ( /\ "in" \in mode => ~stream_can_read
                 /\ "out" \in mode => ~stream_can_write
                 /\ Close(mode) )
               => UNCHANGED <<constructed, m_data, m_current_position, m_size,
                              stream_can_read, stream_can_write>>]_vars

C16_Witness ==
    /\ Alive /\ ~can_read /\ ~can_write
    /\ last.op = "close"
    /\ m_size = 2 /\ m_current_position = 1

\* What is seen of the buffer through handle h: the collection, the head,
\* m_size and the open flags of the core it reaches; nothing of it through a
\* handle that reaches another core.
Observes(h) ==
    IF Through(h)
    THEN {<<m_data, m_current_position, m_size, can_read, can_write>>}
    ELSE {}

\* C17: all handles in existence reach the one core, so what is seen through
\* each of them (collection, head, m_size, open flags) is the same after
\* every operation, through whichever handle it was called.
C17_HandlesShareCore ==
    Alive =>
      \A h1 \in Handles, h2 \in Handles :
        (holds(h1) /\ holds(h2)) =>
          Observes(h1) # {} /\ Observes(h1) = Observes(h2)

C17_Witness ==
    /\ Alive
    /\ \A h \in Handles : holds(h)
    /\ last.op = "write" /\ last.ret = 1
    /\ m_size = 2

NoHandles == \A h \in Handles : ~holds(h)

\* C18: the core's destructor runs in the step that takes the last handle
\* away and in no other; the storage goes only after the destructor has closed
\* both directions, with no handle left; and nothing happens to a destroyed
\* core, so its storage goes once.
C18_DestroyedWithLastHandle ==
    [][/\ (constructed = "ok" /\ constructed' = "destructing")
            <=> (constructed = "ok" /\ ~NoHandles /\ NoHandles')
       /\ constructed' \in {"destructing", "destroyed"} => NoHandles'
       /\ (constructed' = "destroyed" /\ constructed # "destroyed") =>
             /\ constructed = "destructing"
             /\ ~stream_can_read /\ ~stream_can_write
       /\ constructed # "destroyed"]_vars

C18_Witness ==
    /\ constructed = "destroyed"
    /\ NoHandles
    /\ ~can_read /\ ~can_write
    /\ m_size = 2

\* C19: a buffer constructed from a collection of length n has m_size = n and
\* a container of length n holding it, the head at 0 when constructed for
\* reading and at n when constructed for writing, where a first write appends
\* to the n elements; a buffer constructed empty has head = m_size = 0.
C19_InitialState ==
    [][constructed = "none" =>
         /\ \A data \in SeqsUpTo(MaxInitLen), mode \in OpenModes :
              (ConstructFromCollection(data, mode) /\ constructed' = "ok") =>
                /\ m_size' = Len(data)
                /\ m_data' = data
                /\ "in" \in mode => m_current_position' = 0
                /\ mode = {"out"} =>
                      /\ m_current_position' = Len(data)
                      /\ \A more \in SeqsUpTo(MaxLen) \ {<<>>} :
                            \A o \in write(Buf, more)' :
                              ~o.crash /\ o.d = data \o more
         /\ \A mode \in OpenModes :
              ConstructEmpty(mode) =>
                m_current_position' = 0 /\ m_size' = 0 /\ m_data' = <<>>]_vars

C19_Witness ==
    /\ Alive /\ can_write /\ ~can_read
    /\ last.op = "construct"
    /\ Len(m_data) = 2 /\ m_size = 2 /\ m_current_position = 2

\* C20: alloc(count) on a writable buffer hands back the region at the head,
\* leaves the container at least head + count long, and leaves the head,
\* m_size and every element below m_size as they were; on a buffer that is
\* not writable it hands back null and changes nothing.
C20_AllocFrame ==
    Alive =>
      \A count \in Counts :
        LET o == alloc(Buf, count)
        IN  IF can_write
            THEN /\ o.ret = m_current_position
                 /\ Len(o.d) >= m_current_position + count
                 /\ o.p = m_current_position
                 /\ o.s = m_size
                 /\ \A i \in 1..m_size :
                       i <= Len(m_data) /\ i <= Len(o.d) /\ o.d[i] = m_data[i]
            ELSE Inert(o, EofValue)

\* C21: on a buffer open for writing only, with the head at p < m_size (after
\* a seek back), a write of count > 0 elements with p + count <= m_size
\* leaves m_size and the container's length as they were and changes no
\* element outside the offsets p .. p + count - 1.
C21_OverwriteFrame ==
    (Alive /\ can_write /\ ~can_read /\ m_current_position < m_size) =>
      \A data \in SeqsUpTo(MaxLen) \ {<<>>} :
        (m_current_position + Len(data) <= m_size) =>
          \A o \in write(Buf, data) :
            /\ ~o.crash
            /\ o.s = m_size
            /\ Len(o.d) = Len(m_data)
            /\ \A i \in 1..Len(m_data) :
                  (i <= m_current_position \/ i > m_current_position + Len(data))
                    => o.d[i] = m_data[i]

\* C22 as claimed: on a buffer open for writing only, the collection is
\* m_size long in every reachable state.
C22_LengthIsCommitted ==
    (Alive /\ can_write /\ ~can_read) => Len(m_data) = m_size

\* C22: a buffer constructed for writing starts with a collection m_size
\* long, and write, a seek of the write head, and alloc(n) followed by a
\* fill and commit(n) each keep the collection m_size long; alloc alone
\* leaves it longer.
C22_WriteSeekKeepLength ==
    (Alive /\ can_write /\ ~can_read) =>
      /\ last.op \in {"construct", "construct_empty"} => Len(m_data) = m_size
      /\ Len(m_data) = m_size =>
            /\ \A data \in SeqsUpTo(MaxLen) :
                  /\ \A o \in write(Buf, data) : ~o.crash /\ Len(o.d) = o.s
                  /\ \A o \in alloc_fill_commit(Buf, data) :
                        ~o.crash /\ Len(o.d) = o.s
            /\ \A position \in 0..(MaxLen + 1) :
                  LET o == seekpos(Buf, position, {"out"})
                  IN  Len(o.d) = o.s
            /\ \A offset \in -(MaxLen + 1)..(MaxLen + 1), way \in SeekDirs :
                  LET o == seekoff(Buf, offset, way, {"out"})
                  IN  Len(o.d) = o.s
            /\ \A count \in Counts \ {0} :
                  (m_current_position + count > m_size) =>
                    Len(alloc(Buf, count).d) > alloc(Buf, count).s

C22_Witness ==
    /\ Alive /\ can_write /\ ~can_read
    /\ last.op = "seek" /\ last.ret = 2
    /\ m_current_position = 2 /\ m_size = 2 /\ Len(m_data) = 2

====
